---- MODULE Spec2Model ----
(***************************************************************************)
(* Model of the stock -> industry classification synchroniser:            *)
(*   src/src/store.py         Store (load / save / update_stock / clear)  *)
(*   src/src/orchestrator.py  Orchestrator (full_refresh / refresh)       *)
(*   src/src/nse_client.py    NSEClient (symbol lists, get_industry_info) *)
(*   src/src/bse_client.py    BSEClient (security list, get_industry_info)*)
(*                                                                         *)
(* Symbols are modelled as the integers 1..MaxSym (the join key of both   *)
(* exchanges); a classification record is a sequence of str, a str the    *)
(* sequence of its code points.                                           *)
(***************************************************************************)
EXTENDS Integers, Sequences, FiniteSets, TLC

VARIABLES
    metadata,   \* Store.metadata
    data,       \* Store.data : the (symbol, record) members in insertion order
    file,       \* content of Store.filepath on disk
    dir,        \* state of os.path.dirname(Store.filepath)
    raised,     \* exception that escaped the last call ("none" if it returned)
    lastOp,     \* the last Store call made, its arguments and whether it completed
    prevOp,     \* the Store call made before lastOp (its name and completion)
    nseMainCsv, \* upstream: what fetching EQUITY_L.csv ends in, after the retry layer
    nseSmeCsv,  \* upstream: what fetching SME_EQUITY_L.csv ends in
    bseListing, \* upstream: what BSE.listSecurities ends in
    nseScrip,   \* upstream: symbol -> what getDetailedScripData ends in, per market type
    bseMeta,    \* upstream: symbol -> what BSE.equityMetaInfo ends in
    mode,       \* the workflow of the current run: "none", "full_refresh", "refresh"
    pc,         \* position of the run: "idle", "list", "loop", "final_save", "done",
                \* "aborted", "killed", "killed_in_save"
    pass,       \* index of the current pass in the workflow's order of passes
    securities, \* the list handed to the current _process_*_securities call
    idx,        \* number of items of securities the loop has gone through
    raisedAt,   \* where the exception that aborted the run was raised
    calls,      \* get_industry_info calls made in this run: <<adapter, symbol>>
    unsaved,    \* store updates of this run since its last save() call
    passUnsaved,\* store updates of the current pass since the last save() call
    runs,       \* number of runs started
    prev,       \* how the previous run ended, and the file it left
    passStart,  \* the file and self.store.data when the current pass entered its loop
    log,        \* the steps of the current run, in the order they were made
    retry,      \* the retry-wrapped call in flight: attempts, waits, last failure
    nseCall     \* the last NSEClient.get_industry_info call: queries made and result

storeVars == <<metadata, data, file, dir>>
obsVars == <<raised, lastOp, prevOp>>
upstreamVars == <<nseMainCsv, nseSmeCsv, bseListing, nseScrip, bseMeta>>
runVars == <<mode, pc, pass, securities, idx, raisedAt, calls, unsaved, passUnsaved, runs, prev,
             passStart, log>>
adapterVars == <<retry, nseCall>>
vars == <<metadata, data, file, dir, raised, lastOp, prevOp,
          nseMainCsv, nseSmeCsv, bseListing, nseScrip, bseMeta,
          mode, pc, pass, securities, idx, raisedAt, calls, unsaved, passUnsaved, runs, prev,
          passStart, log, retry, nseCall>>

----------------------------------------------------------------------------
(* Bounds of the model *)

\* number of distinct ticker symbols
MaxSym == 2
\* longest record handed to update_stock
MaxInfoLen == 5

Symbols == 1..MaxSym

----------------------------------------------------------------------------
(* Python values *)

\* A Python str is the sequence of the code points of its characters
\* (ord(c) of each). Str gives the str of a literal of this module, one
\* character after another.
Ascii32 == " !\"#$%&'()*+,-./0123456789:;<=>?@ABCDEFGHIJKLMNOPQRSTUVWXYZ[\\]^_"
Ascii97 == "abcdefghijklmnopqrstuvwxyz{|}~"

\* ord(c) of an ASCII character of a literal
ord(c) ==
    IF \E k \in 1..Len(Ascii32) : SubSeq(Ascii32, k, k) = c
    THEN 31 + (CHOOSE k \in 1..Len(Ascii32) : SubSeq(Ascii32, k, k) = c)
    ELSE 96 + (CHOOSE k \in 1..Len(Ascii97) : SubSeq(Ascii97, k, k) = c)

Str(literal) == [j \in 1..Len(literal) |-> ord(SubSeq(literal, j, j))]

\* the str ""
EmptyStr == <<>>
\* the str "-"
Dash == <<45>>

\* A Python dict is the sequence of its (key, value) members in insertion
\* order, the keys distinct.
\* Store.__init__ / Store.clear: self.data = {}
EmptyDict == <<>>

\* the keys of a dict ('k in d' is k \in dict_keys(d))
dict_keys(d) == {d[i][1] : i \in DOMAIN d}

\* d[k], for a key of d
dict_get(d, k) == d[CHOOSE i \in DOMAIN d : d[i][1] = k][2]

\* self.data[symbol] = info: a key of the dict keeps its place, a new key goes
\* to the end
dict_set(d, k, v) ==
    IF k \in dict_keys(d)
    THEN [i \in DOMAIN d |-> IF d[i][1] = k THEN <<k, v>> ELSE d[i]]
    ELSE Append(d, <<k, v>>)

\* the (key, value) members of a dict, as json.dump writes them one after
\* another: in insertion order
dict_items(d) == d

\* the dict json.load builds from the members of a JSON object, which it
\* assigns one after another: a repeated key keeps its first place and its
\* last value
dict_of(items) ==
    LET firsts == SelectSeq([i \in DOMAIN items |-> i],
                            LAMBDA i : \A j \in 1..(i - 1) : items[j][1] # items[i][1])
        last(k) == CHOOSE i \in DOMAIN items :
                      items[i][1] = k /\ \A j \in (i + 1)..Len(items) : items[j][1] # k
    IN  [n \in DOMAIN firsts |->
            <<items[firsts[n]][1], items[last(items[firsts[n]][1])][2]>>]

\* Optional[List[str]]: what get_industry_info and get_stock return
None == [found |-> FALSE, info |-> <<>>]
Some(info) == [found |-> TRUE, info |-> info]

----------------------------------------------------------------------------
(* Store: src/src/store.py *)

\* Store.__init__: self.metadata
DefaultMetadata == <<Str("Macro"), Str("Sector"), Str("Industry"), Str("Basic Industry")>>

\* What is on disk at Store.filepath, described by what json.load reads
\* from it.
\*   kind "missing"   : os.path.exists(filepath) is False
\*   kind "directory" : the path is a directory
\*   kind "invalid"   : text json.load cannot parse (JSONDecodeError)
\*   kind "scalar"    : a JSON number, null, true or false
\*   kind "array"     : a JSON array of the strings elems
\*   kind "object"    : a JSON object with the member names keys; metadata and
\*                      data are the values of those two members when present
\* The member names of the object are kept as names; the values of
\* "metadata", of the records of "data" and of elems are str.
Doc(kind, elems, keys, md, items) ==
    [kind |-> kind, elems |-> elems, keys |-> keys, metadata |-> md, data |-> items]

NoFile == Doc("missing", <<>>, {}, <<>>, <<>>)

\* a directory at Store.filepath
Directory == Doc("directory", <<>>, {}, <<>>, <<>>)

\* a text that is no JSON value: an empty file, or a JSON text cut off before
\* its end
TornFile == Doc("invalid", <<>>, {}, <<>>, <<>>)

(* json.dump(content, f, indent=2, ensure_ascii=False) and json.load(f).     *)
(* The text of the file is modelled by its JSON strings, each the sequence   *)
(* of the code points written, in the order json.dump writes them.           *)

\* '\\u{0:04x}'.format(n): the four lower-case hexadecimal digits of n
hex4(n) ==
    LET digit(v) == IF v < 10 THEN 48 + v ELSE 87 + v
    IN  <<digit((n \div 4096) % 16), digit((n \div 256) % 16), digit((n \div 16) % 16),
          digit(n % 16)>>

\* json.encoder.ESCAPE: the characters of a str that json.dump replaces, the
\* control characters U+0000..U+001F, '"' and '\'
Escaped == (0..31) \cup {34, 92}

\* json.encoder.ESCAPE_DCT: what json.dump writes for one character of a str
\* with ensure_ascii=False: '\"', '\\', '\n', '\r', '\t', '\f', '\b', '\u00XX'
\* for every other control character, and every other character as it is
escape_char(c) ==
    IF c = 34 THEN <<92, 34>>
    ELSE IF c = 92 THEN <<92, 92>>
    ELSE IF c = 10 THEN <<92, 110>>
    ELSE IF c = 13 THEN <<92, 114>>
    ELSE IF c = 9 THEN <<92, 116>>
    ELSE IF c = 12 THEN <<92, 102>>
    ELSE IF c = 8 THEN <<92, 98>>
    ELSE IF c < 32 THEN <<92, 117>> \o hex4(c)
    ELSE <<c>>

\* ESCAPE.sub(replace, s): s with each of those characters replaced
RECURSIVE escape(_)
escape(s) ==
    IF \A j \in DOMAIN s : s[j] \notin Escaped THEN s
    ELSE escape_char(Head(s)) \o escape(Tail(s))

\* json.encoder.encode_basestring: the JSON string json.dump writes for a str
encode_basestring(s) == <<34>> \o escape(s) \o <<34>>

\* the surrogate code points, which the 'utf-8' codec of the file does not
\* encode (UnicodeEncodeError)
Surrogates == 55296..57343

\* whether f.write(chunk) can encode the text chunk
utf8_encodable(chunk) == \A j \in DOMAIN chunk : chunk[j] \notin Surrogates

\* json.decoder.BACKSLASH: the character an escape '\c' stands for, for c one
\* of '"', '\', '/', 'b', 'f', 'n', 'r', 't'
BACKSLASH ==
    [c \in {34, 92, 47, 98, 102, 110, 114, 116} |->
        CASE c = 98  -> 8
          [] c = 102 -> 12
          [] c = 110 -> 10
          [] c = 114 -> 13
          [] c = 116 -> 9
          [] OTHER   -> c]

\* the value of a hexadecimal digit, -1 for any other character
hex_value(c) ==
    IF c \in 48..57 THEN c - 48
    ELSE IF c \in 97..102 THEN c - 87
    ELSE IF c \in 65..70 THEN c - 55
    ELSE -1

\* the number the four characters of s from pos on stand for in a '\uXXXX'
\* escape, -1 when they are not four hexadecimal digits
decode_uXXXX(s, pos) ==
    IF pos + 3 > Len(s) \/ \E j \in pos..(pos + 3) : hex_value(s[j]) = -1 THEN -1
    ELSE 4096 * hex_value(s[pos]) + 256 * hex_value(s[pos + 1])
            + 16 * hex_value(s[pos + 2]) + hex_value(s[pos + 3])

\* what scanstring ends in: the str read and the index after the closing
\* quote, or JSONDecodeError
Scanned(str, end) == [ok |-> TRUE, str |-> str, end |-> end]
JSONDecodeError == [ok |-> FALSE, str |-> <<>>, end |-> 0]

\* json.decoder.scanstring(s, end) with strict=True, s[end] being the first
\* character after the opening quote (indices from 1): chunks holds the
\* characters read so far. A control character in the string, an escape that
\* is not in BACKSLASH, a '\u' without four hexadecimal digits and a text that
\* ends before the closing quote raise JSONDecodeError; a '\uXXXX' of a high
\* surrogate followed by the '\uXXXX' of a low surrogate is one character.
RECURSIVE scan(_, _, _)
scan(s, end, chunks) ==
    IF end > Len(s) THEN JSONDecodeError
    ELSE IF s[end] = 34 THEN Scanned(chunks, end + 1)
    ELSE IF s[end] < 32 THEN JSONDecodeError
    ELSE IF s[end] # 92 THEN scan(s, end + 1, Append(chunks, s[end]))
    ELSE IF end + 1 > Len(s) THEN JSONDecodeError
    ELSE IF s[end + 1] # 117
         THEN IF s[end + 1] \in DOMAIN BACKSLASH
              THEN scan(s, end + 2, Append(chunks, BACKSLASH[s[end + 1]]))
              ELSE JSONDecodeError
    ELSE LET uni == decode_uXXXX(s, end + 2)
             paired == /\ uni \in 55296..56319
                       /\ end + 7 <= Len(s)
                       /\ s[end + 6] = 92 /\ s[end + 7] = 117
             uni2 == decode_uXXXX(s, end + 8)
         IN  IF uni = -1 THEN JSONDecodeError
             ELSE IF ~paired THEN scan(s, end + 6, Append(chunks, uni))
             ELSE IF uni2 = -1 THEN JSONDecodeError
             ELSE IF uni2 \in 56320..57343
                  THEN scan(s, end + 12,
                            Append(chunks, 65536 + 1024 * (uni - 55296) + (uni2 - 56320)))
                  ELSE scan(s, end + 6, Append(chunks, uni))

scanstring(s, end) ==
    IF \A j \in end..(Len(s) - 1) : s[j] >= 32 /\ s[j] \notin {34, 92}
    THEN IF end <= Len(s) /\ s[Len(s)] = 34
         THEN Scanned(SubSeq(s, end, Len(s) - 1), Len(s) + 1)
         ELSE scan(s, end, <<>>)
    ELSE scan(s, end, <<>>)

\* json.load on one JSON string of the text: the str it stands for, or
\* JSONDecodeError when the text is no JSON string
parse_string(token) ==
    IF Len(token) < 2 \/ token[1] # 34 THEN JSONDecodeError
    ELSE LET r == scanstring(token, 2) IN
         IF r.ok /\ r.end = Len(token) + 1 THEN r ELSE JSONDecodeError

\* the JSON array json.dump writes for a list of str: its elements in order
json_array(lst) == [j \in DOMAIN lst |-> encode_basestring(lst[j])]

\* the list json.load reads from a JSON array of strings
list_of(array) == [j \in DOMAIN array |-> parse_string(array[j]).str]

\* json.dump(content, ...): the text written for
\* content = {"metadata": md, "data": d}, as the members "metadata" and "data";
\* the members of "data" are written in the order of d, a symbol as its name
json_dumps(md, d) ==
    [metadata |-> json_array(md),
     data     |-> [i \in DOMAIN dict_items(d) |->
                      <<dict_items(d)[i][1], json_array(dict_items(d)[i][2])>>]]

\* the JSON strings of a text, in the order they are written
chunks_of(text) ==
    {text.metadata[j] : j \in DOMAIN text.metadata}
        \cup UNION {{text.data[i][2][j] : j \in DOMAIN text.data[i][2]} : i \in DOMAIN text.data}

\* json.load(f) on the text: the value read, or a text json.load cannot parse
json_loads(text) ==
    IF \A chunk \in chunks_of(text) : parse_string(chunk).ok
    THEN Doc("object", <<>>, {"metadata", "data"}, list_of(text.metadata),
             [i \in DOMAIN text.data |-> <<text.data[i][1], list_of(text.data[i][2])>>])
    ELSE TornFile

\* what 'json.dump(content, f, ...)' raises inside 'with open(filepath, "w",
\* encoding="utf-8")': UnicodeEncodeError at the first chunk the codec cannot
\* encode
json_dump_raises(md, d) ==
    IF \A chunk \in chunks_of(json_dumps(md, d)) : utf8_encodable(chunk) THEN "none"
    ELSE "UnicodeEncodeError"

\* the file after 'with open(filepath, "w", encoding="utf-8") as f:
\* json.dump(content, f, ...)', described by what json.load reads from it; a
\* dump that raises leaves the text written before the chunk that raised
json_dump_without_metadata(md, d) ==
    IF json_dump_raises(md, d) = "none" THEN json_loads(json_dumps(<<>>, d)) ELSE TornFile

json_dump(md, d) ==
    IF json_dump_raises(md, d) = "none" THEN json_loads(json_dumps(md, d)) ELSE TornFile

\* '"metadata" in content' for a parsed JSON value (raises TypeError on a scalar)
contains(content, key) ==
    CASE content.kind = "object" -> key \in content.keys
      [] content.kind = "array"  -> \E i \in DOMAIN content.elems : content.elems[i] = Str(key)
      [] OTHER                   -> FALSE

\* Store.load: the store and the escaping exception after load() with f on disk
load_result(f, md, d) ==
    CASE f.kind = "missing" ->
            \* else branch of os.path.exists
            [metadata |-> md, data |-> EmptyDict, raised |-> "none"]
      [] f.kind = "directory" ->
            \* open() of a directory: IsADirectoryError, not caught
            [metadata |-> md, data |-> d, raised |-> "IsADirectoryError"]
      [] f.kind = "invalid" ->
            \* except json.JSONDecodeError
            [metadata |-> md, data |-> EmptyDict, raised |-> "none"]
      [] f.kind = "scalar" ->
            \* '"metadata" in content' on an int / None / bool: TypeError, not caught
            [metadata |-> md, data |-> d, raised |-> "TypeError"]
      [] f.kind = "array" ->
            IF contains(f, "metadata") /\ contains(f, "data")
            THEN \* content["metadata"] on a list: TypeError, not caught
                 [metadata |-> md, data |-> d, raised |-> "TypeError"]
            ELSE [metadata |-> md, data |-> EmptyDict, raised |-> "none"]
      [] OTHER ->
            IF contains(f, "metadata") /\ contains(f, "data")
            THEN [metadata |-> f.metadata, data |-> dict_of(f.data), raised |-> "none"]
            ELSE [metadata |-> md, data |-> EmptyDict, raised |-> "none"]

\* what save() ends in: the disk after it, whether it wrote the whole text,
\* and the exception that escaped it
Saved(f, dr, wrote, exc) == [file |-> f, dir |-> dr, wrote |-> wrote, raised |-> exc]

\* Store.save. The directory of the file is "exists" (a directory),
\* "absent" (os.makedirs creates it), "blocked" (absent, and os.makedirs
\* raises OSError) or "not_a_directory" (the path exists and is no directory:
\* os.makedirs is not called).
save_result(f, dr, md, d) ==
    IF dr = "blocked"
    THEN \* except OSError: print, return
         Saved(f, dr, FALSE, "none")
    ELSE IF dr = "not_a_directory"
    THEN \* open(): NotADirectoryError, not caught
         Saved(f, dr, FALSE, "NotADirectoryError")
    ELSE IF f.kind = "directory"
    THEN \* open(): IsADirectoryError, not caught
         Saved(f, dr, FALSE, "IsADirectoryError")
    ELSE IF json_dump_raises(md, d) # "none"
    THEN \* open() has emptied the file; the exception leaves the with block
         Saved(json_dump(md, d), "exists", FALSE, json_dump_raises(md, d))
    ELSE Saved(json_dump(md, d), "exists", TRUE, "none")

\* Store.update_stock: self.data after update_stock(symbol, info)
update_stock_unchecked(d, symbol, info) == dict_set(d, symbol, info)

update_stock_drops_rejected(d, symbol, info) ==
    IF Len(info) # 4 THEN SelectSeq(d, LAMBDA m : m[1] # symbol) ELSE dict_set(d, symbol, info)

update_stock_result(d, symbol, info) ==
    IF Len(info) # 4 THEN d ELSE dict_set(d, symbol, info)

\* Store.get_stock: self.data.get(symbol), None for a symbol that is no key
get_stock(d, symbol) == IF symbol \in dict_keys(d) THEN Some(dict_get(d, symbol)) ELSE None

----------------------------------------------------------------------------
(* Inputs of the store operations *)

\* records of every length 0..5, with distinct fields
InfoOfLen(n) == [i \in 1..n |-> Str(ToString(i))]
\* the record of the files found on disk
OtherInfo == <<Str("Finance"), Str("Banks"), Dash, Str("Private Bank")>>
\* a record whose fields hold characters JSON escapes ('"', '\', tab, newline,
\* backspace, U+001F), '/', DEL, and characters beyond ASCII (U+00E9, U+20B9,
\* U+1F600)
EscapedInfo ==
    << <<74, 32, 34, 75, 34>>, <<65, 92, 66, 47, 127>>, <<9, 10, 8, 31>>,
       <<233, 8377, 128512>> >>
\* a record with a lone surrogate (U+D800), as json.loads reads it from the
\* escape '\ud800' in a response
SurrogateInfo == <<Str("A"), <<55296>>, Dash, Dash>>
InfoInputs ==
    {InfoOfLen(n) : n \in (0..MaxInfoLen) \ {4}} \cup {EscapedInfo, SurrogateInfo}

OpRecord(op, symbol, info, ok) == [op |-> op, symbol |-> symbol, info |-> info, ok |-> ok]

\* files found on disk when the program starts
ForeignFiles ==
    { NoFile,
      Directory,
      TornFile,
      Doc("scalar", <<>>, {}, <<>>, <<>>),
      Doc("array", <<Str("x")>>, {}, <<>>, <<>>),
      Doc("array", <<Str("metadata"), Str("data")>>, {}, <<>>, <<>>),
      Doc("object", <<>>, {}, <<>>, <<>>),
      Doc("object", <<>>, {"metadata"}, DefaultMetadata, <<>>),
      Doc("object", <<>>, {"metadata", "data"}, DefaultMetadata, <<<<1, OtherInfo>>>>),
      Doc("object", <<>>, {"metadata", "data"}, <<Str("Group")>>,
          <<<<1, <<>>>>, <<2, InfoOfLen(3)>>>>) }

----------------------------------------------------------------------------
(* Adapters: src/src/nse_client.py and src/src/bse_client.py.               *)
(* The retry layer and the network are upstream of this part: an upstream   *)
(* value says what a retry-wrapped call ends in (a value, or an exception   *)
(* re-raised out of the retry layer).                                       *)

\* None and Some(info), defined with the store, are what get_industry_info
\* returns

\* 'if info:' on an Optional[List[str]]
truthy(r) == r.found /\ Len(r.info) > 0

\* 'field or "-"' (a field that is None or "" is modelled as "")
or_dash(x) == IF x = EmptyStr THEN Dash ELSE x

\* 'any([f1, f2, f3, f4])'
any_populated_always(fields) == TRUE

any_populated(fields) == \E j \in DOMAIN fields : fields[j] # EmptyStr

\* symbol.endswith('-RE'): the tickers of the model that carry the suffix
RightsEntitlements == {0}
endswith_RE(symbol) == symbol \in RightsEntitlements

\* What self.nse.getDetailedScripData(symbol, series, marketType) ends in:
\*   kind    "raise" (exception out of the retry layer) or "ok"
\*   equity  len(data['equityResponse']), 0 also when the key is absent
\*   secInfo whether data['equityResponse'][0]['secInfo'] is truthy
\*   fields  secInfo's macro, sector, industryInfo, basicIndustry
ScripData(kind, equity, secInfo, fields) ==
    [kind |-> kind, equity |-> equity, secInfo |-> secInfo, fields |-> fields]

\* NSEClient.get_industry_info.extract_info
extract_info(d) ==
    IF d.equity > 0
    THEN IF ~d.secInfo THEN None
         ELSE IF any_populated(d.fields)
              THEN Some([j \in 1..4 |-> or_dash(d.fields[j])])
              ELSE None
    ELSE None

\* NSEClient.get_industry_info(symbol, series); up.N and up.G are what the
\* queries with marketType "N" and "G" end in
nse_get_industry_info_no_fallback(symbol, up) ==
    IF endswith_RE(symbol) THEN None
    ELSE IF up.N.kind = "raise" THEN None
    ELSE extract_info(up.N)

nse_get_industry_info(symbol, up) ==
    IF endswith_RE(symbol) THEN None
    ELSE IF up.N.kind = "raise" THEN None
    ELSE IF truthy(extract_info(up.N)) THEN extract_info(up.N)
    ELSE IF up.G.kind = "raise" THEN None
    ELSE extract_info(up.G)

\* the marketType values NSEClient.get_industry_info queries, in the order of
\* the queries
nse_queries(symbol, up) ==
    IF endswith_RE(symbol) THEN <<>>
    ELSE IF up.N.kind = "raise" THEN <<"N">>
    ELSE IF truthy(extract_info(up.N)) THEN <<"N">>
    ELSE <<"N", "G">>

\* What self.bse.equityMetaInfo(scrip_code) ends in:
\*   kind    "raise" or "ok"
\*   present whether meta_info is truthy
\*   fields  meta_info's Sector, IndustryNew, IGroup, ISubGroup
MetaInfo(kind, present, fields) == [kind |-> kind, present |-> present, fields |-> fields]

\* BSEClient.get_industry_info(scrip_code)
bse_get_industry_info(meta) ==
    IF meta.kind = "raise" THEN None
    ELSE IF meta.present /\ any_populated(meta.fields)
         THEN Some([j \in 1..4 |-> or_dash(meta.fields[j])])
         ELSE None

\* parameters (besides self) of BSEClient.get_industry_info
BseGetIndustryInfoParams == {"scrip_code"}
\* keyword arguments of the call in Orchestrator._process_bse_securities
BseCallKeywords == {"symbol"}

\* self.bse_client.get_industry_info(scrip_code, symbol=symbol): Python binds the
\* arguments before the body runs; an unknown keyword raises TypeError at the call
call_bse_get_industry_info(meta) ==
    IF BseCallKeywords \subseteq BseGetIndustryInfoParams
    THEN [raised |-> "none", result |-> bse_get_industry_info(meta)]
    ELSE [raised |-> "TypeError", result |-> None]

\* What a list fetch ends in: outcome "ok" (status 200 with a header line and
\* the rows), "error" (exception out of the retry layer), "http_error" (a status
\* other than 200), "empty_body" (status 200, no line at all)
Csv(outcome, rows) == [outcome |-> outcome, rows |-> rows]

\* what a list operation hands to the orchestrator: an exception, None or a list
ListResult(exc, isNone, items) == [raised |-> exc, isNone |-> isNone, items |-> items]

nse_items(rows, series) == [j \in DOMAIN rows |-> [symbol |-> rows[j], series |-> series]]

\* NSEClient.get_mainboard_symbols
get_mainboard_symbols(csv) ==
    CASE csv.outcome = "error"      -> ListResult("none", FALSE, <<>>)
      [] csv.outcome = "http_error" -> ListResult("none", FALSE, <<>>)
      [] csv.outcome = "empty_body" -> ListResult("none", TRUE, <<>>)
      [] OTHER                      -> ListResult("none", FALSE, nse_items(csv.rows, "EQ"))

\* NSEClient.get_sme_symbols
get_sme_symbols(csv) ==
    CASE csv.outcome = "error"      -> ListResult("none", FALSE, <<>>)
      [] csv.outcome = "http_error" -> ListResult("none", FALSE, <<>>)
      [] csv.outcome = "empty_body" -> ListResult("none", TRUE, <<>>)
      [] OTHER                      -> ListResult("none", FALSE, nse_items(csv.rows, "SM"))

\* BSEClient.get_securities
get_securities_reraising(listing) ==
    IF listing.outcome = "error"
    THEN ListResult("ConnectionError", FALSE, <<>>)
    ELSE ListResult("none", FALSE,
            [j \in DOMAIN listing.rows |->
                [scrip_code |-> 500000 + listing.rows[j], symbol |-> listing.rows[j]]])

get_securities(listing) ==
    IF listing.outcome = "error"
    THEN ListResult("none", FALSE, <<>>)
    ELSE ListResult("none", FALSE,
            [j \in DOMAIN listing.rows |->
                [scrip_code |-> 500000 + listing.rows[j], symbol |-> listing.rows[j]]])

----------------------------------------------------------------------------
(* The retry layer of the adapters: tenacity's Retrying as the four wrapped  *)
(* operations build it, and Orchestrator._configure_retries.                 *)

\* Orchestrator._configure_retries: settings
settings ==
    [daily   |-> [max_attempts |-> 5,  max_wait |-> 30],
     weekly  |-> [max_attempts |-> 15, max_wait |-> 90],
     monthly |-> [max_attempts |-> 30, max_wait |-> 180]]

\* settings.get(frequency, settings["weekly"])
configure_retries(frequency) ==
    IF frequency \in DOMAIN settings THEN settings[frequency] ELSE settings["weekly"]

\* An exception raised by the wrapped function. type is the class the retry
\* predicates test: "TimeoutError" and "ConnectionError" are the builtins,
\* "RequestException" stands for requests.exceptions.RequestException and its
\* subclasses, "ValueError" for any other exception. msg is the message the
\* exception was built with; status is the HTTP status of the response it
\* reports, 0 when it reports none.
Exc(type, status, msg) == [type |-> type, status |-> status, msg |-> msg]
NoFailure == Exc("none", 0, EmptyStr)

\* str(exception)
msg_of(exception) == exception.msg

\* 'code in msg': code is a substring of msg
in_str(code, msg) ==
    \E k \in 0..(Len(msg) - Len(code)) : SubSeq(msg, k + 1, k + Len(code)) = code

\* ["429", "503", "408", "502", "504"]
RetryCodes == {Str("429"), Str("503"), Str("408"), Str("502"), Str("504")}

\* NSEClient._is_retryable_exception
is_retryable_exception(exception) ==
    IF exception.type = "TimeoutError" THEN TRUE
    ELSE IF exception.type = "ConnectionError"
         THEN \E code \in RetryCodes : in_str(code, msg_of(exception))
         ELSE FALSE

\* retry_if_exception_type((requests.exceptions.RequestException, ConnectionError,
\* TimeoutError)) of BSEClient._fetch_securities and BSEClient._fetch_meta_info
bse_retry_if_exception_type(exception) ==
    exception.type \in {"RequestException", "ConnectionError", "TimeoutError"}

\* the retry-wrapped operations
NseOps == {"_fetch_url", "_fetch_detailed_scrip_data_with_retry"}
BseOps == {"_fetch_securities", "_fetch_meta_info"}

\* the retry= argument of the Retrying object of an operation
retry_predicate(op, exception) ==
    IF op \in NseOps THEN is_retryable_exception(exception)
    ELSE bse_retry_if_exception_type(exception)

\* stop=stop_after_attempt(self.max_attempts)
stop_after_attempt_late(attempt_number, max_attempts) == attempt_number > max_attempts

stop_after_attempt(attempt_number, max_attempts) == attempt_number >= max_attempts

Max2(a, b) == IF a >= b THEN a ELSE b
Min2(a, b) == IF a <= b THEN a ELSE b

\* wait=wait_exponential(multiplier=1, min=2, max=self.max_wait): the wait after
\* the failed attempt attempt_number
wait_exponential_no_floor(attempt_number, multiplier, min, max) ==
    Min2(multiplier * 2^(attempt_number - 1), max)

wait_exponential(attempt_number, multiplier, min, max) ==
    Max2(Max2(0, min), Min2(multiplier * 2^(attempt_number - 1), max))

\* no retry-wrapped call has been made
IdleRetry ==
    [state |-> "idle", frequency |-> "weekly", op |-> "none", attempt |-> 0,
     waits |-> <<>>, failure |-> NoFailure, raised |-> "none"]

\* no NSEClient.get_industry_info call has been observed
IdleNseCall ==
    [state |-> "idle", symbol |-> 0,
     up |-> [N |-> ScripData("raise", 0, FALSE, <<EmptyStr, EmptyStr, EmptyStr, EmptyStr>>),
             G |-> ScripData("raise", 0, FALSE, <<EmptyStr, EmptyStr, EmptyStr, EmptyStr>>)],
     queries |-> <<>>, result |-> None]

NoAdapterCall == retry = IdleRetry /\ nseCall = IdleNseCall

----------------------------------------------------------------------------
(* Orchestrator: src/src/orchestrator.py *)

\* 'if (i + 1) % 50 == 0'
CheckpointEvery == 50

checkpoint_due_late(n) == n % (CheckpointEvery + 1) = 0

checkpoint_due_from_zero(n) == (n - 1) % CheckpointEvery = 0

checkpoint_due(n) == n % CheckpointEvery = 0

\* 'symbol in self.store.data and self.store.data[symbol]'
is_populated_never(d, symbol) == FALSE

is_populated_if_present(d, symbol) == symbol \in dict_keys(d)

is_populated(d, symbol) == symbol \in dict_keys(d) /\ Len(dict_get(d, symbol)) > 0

\* '[s for s in lst if s['symbol'] not in self.store.data or not self.store.data[s['symbol']]]'
missing(lst, d) == SelectSeq(lst, LAMBDA s : ~is_populated(d, s.symbol))

\* the loop body from 'if info:' to the end of the if statement: self.store.data
\* after it
loop_update_placeholder(d, symbol, info) ==
    IF truthy(info) THEN update_stock_result(d, symbol, info.info)
    ELSE update_stock_result(d, symbol, <<Dash, Dash, Dash, Dash>>)

loop_update(d, symbol, info) ==
    IF truthy(info) THEN update_stock_result(d, symbol, info.info) ELSE d

\* the order of the passes of full_refresh() and of refresh()
Passes_bse_first(m) == <<"bse", "nse_main", "nse_sme">>

Passes(m) ==
    IF m = "full_refresh" THEN <<"bse", "nse_main", "nse_sme">>
    ELSE <<"nse_main", "nse_sme", "bse">>

\* the list operation of a pass
list_of_pass(p) ==
    CASE p = "bse"      -> get_securities(bseListing)
      [] p = "nse_main" -> get_mainboard_symbols(nseMainCsv)
      [] OTHER          -> get_sme_symbols(nseSmeCsv)

\* full_refresh() hands the whole BSE list to the loop; every other pass hands
\* the symbols missing from the store
candidates(m, p, items, d) ==
    IF m = "full_refresh" /\ p = "bse" THEN items ELSE missing(items, d)

NoUpstream ==
    /\ nseMainCsv = Csv("ok", <<>>)
    /\ nseSmeCsv = Csv("ok", <<>>)
    /\ bseListing = Csv("ok", <<>>)
    /\ nseScrip = <<>>
    /\ bseMeta = <<>>

NoRun ==
    /\ mode = "none"
    /\ pc = "idle"
    /\ pass = 0
    /\ securities = <<>>
    /\ idx = 0
    /\ raisedAt = "none"
    /\ calls = {}
    /\ unsaved = 0
    /\ passUnsaved = 0
    /\ runs = 0
    /\ prev = [mode |-> "none", pc |-> "idle", file |-> NoFile]
    /\ passStart = [file |-> NoFile, data |-> EmptyDict]
    /\ log = <<>>

----------------------------------------------------------------------------
(* Store operations as steps: specification SpecStore *)

InitStore ==
    /\ metadata = DefaultMetadata
    /\ data = EmptyDict
    /\ file \in ForeignFiles
    /\ dir \in {"exists", "absent", "blocked", "not_a_directory"}
    /\ (dir # "exists" => file = NoFile)
    /\ raised = "none"
    /\ lastOp = OpRecord("init", 0, <<>>, TRUE)
    /\ prevOp = [op |-> "init", ok |-> TRUE]
    /\ NoUpstream
    /\ NoRun
    /\ NoAdapterCall

load ==
    LET r == load_result(file, metadata, data) IN
    /\ metadata' = r.metadata
    /\ data' = r.data
    /\ raised' = r.raised
    /\ lastOp' = OpRecord("load", 0, <<>>, r.raised = "none")
    /\ prevOp' = [op |-> lastOp.op, ok |-> lastOp.ok]
    /\ UNCHANGED <<file, dir>>
    /\ UNCHANGED <<upstreamVars, runVars, adapterVars>>

save ==
    LET r == save_result(file, dir, metadata, data) IN
    /\ file' = r.file
    /\ dir' = r.dir
    /\ raised' = r.raised
    /\ lastOp' = OpRecord("save", 0, <<>>, r.wrote)
    /\ prevOp' = [op |-> lastOp.op, ok |-> lastOp.ok]
    /\ UNCHANGED <<metadata, data>>
    /\ UNCHANGED <<upstreamVars, runVars, adapterVars>>

update_stock(symbol, info) ==
    /\ data' = update_stock_result(data, symbol, info)
    /\ raised' = "none"
    /\ lastOp' = OpRecord("update_stock", symbol, info, TRUE)
    /\ prevOp' = [op |-> lastOp.op, ok |-> lastOp.ok]
    /\ UNCHANGED <<metadata, file, dir>>
    /\ UNCHANGED <<upstreamVars, runVars, adapterVars>>

clear ==
    /\ data' = EmptyDict
    /\ raised' = "none"
    /\ lastOp' = OpRecord("clear", 0, <<>>, TRUE)
    /\ prevOp' = [op |-> lastOp.op, ok |-> lastOp.ok]
    /\ UNCHANGED <<metadata, file, dir>>
    /\ UNCHANGED <<upstreamVars, runVars, adapterVars>>

UpdateStockStep == \E symbol \in Symbols, info \in InfoInputs : update_stock(symbol, info)

NextStore == load \/ save \/ UpdateStockStep \/ clear

SpecStore == InitStore /\ [][NextStore]_vars

----------------------------------------------------------------------------
(* One retry-wrapped call as steps: specification SpecRetry.                *)

Frequencies == {"daily", "weekly", "monthly", "hourly"}

Statuses == {0, 400, 401, 403, 404, 408, 429, 500, 502, 503, 504}

\* the message of the ConnectionError raised for a response with a status
\* other than 200: '<url> <status>: <reason>'
StatusMessage(url, status) == url \o Str(" ") \o Str(ToString(status)) \o Str(": Error")

QuoteUrl == Str("https://www.nseindia.com/api/quote-equity")

\* the ConnectionError for a response with the status st, or for no response
ConnectionFailure(st) ==
    IF st = 0 THEN Exc("ConnectionError", 0, Str("Connection aborted."))
    ELSE Exc("ConnectionError", st, StatusMessage(QuoteUrl, st))

\* what an attempt can raise; the last three carry digits besides the status,
\* in the URL, in the port and in the text of a failure without response
Failures ==
    { Exc("TimeoutError", 0, Str("timed out")),
      Exc("RequestException", 0, Str("request failed")),
      Exc("ValueError", 0, Str("no JSON")) }
        \cup {ConnectionFailure(st) : st \in Statuses}
        \cup { Exc("ConnectionError", 404,
                  StatusMessage(Str("https://www.nseindia.com/api/quote-equity/5031"), 404)),
               Exc("ConnectionError", 500, StatusMessage(Str("https://host:4290/api"), 500)),
               Exc("ConnectionError", 0,
                  Str("[Errno 104] Connection reset by peer (request 15020)")) }

InitRetry ==
    /\ metadata = DefaultMetadata
    /\ data = EmptyDict
    /\ file = NoFile
    /\ dir = "exists"
    /\ raised = "none"
    /\ lastOp = OpRecord("init", 0, <<>>, TRUE)
    /\ prevOp = [op |-> "init", ok |-> TRUE]
    /\ NoUpstream
    /\ NoRun
    /\ NoAdapterCall

\* Orchestrator(frequency=...) has configured both clients and one of them
\* enters a retry-wrapped operation: retryer(fn, ...)
RetryCall(frequency, op) ==
    /\ retry.state \in {"idle", "returned", "raised"}
    /\ retry' = [state |-> "trying", frequency |-> frequency, op |-> op, attempt |-> 0,
                 waits |-> <<>>, failure |-> NoFailure, raised |-> "none"]
    /\ UNCHANGED <<storeVars, obsVars, upstreamVars, runVars, nseCall>>

\* an attempt returns: the retryer returns its value
AttemptReturns ==
    /\ retry.state = "trying"
    /\ retry' = [retry EXCEPT !.state = "returned", !.attempt = @ + 1, !.failure = NoFailure]
    /\ UNCHANGED <<storeVars, obsVars, upstreamVars, runVars, nseCall>>

\* an attempt raises: the retryer re-raises (reraise=True) when the predicate
\* rejects the exception or the stop condition holds, else it sleeps and goes on
AttemptRaises(exception) ==
    /\ retry.state = "trying"
    /\ LET n == retry.attempt + 1
           cfg == configure_retries(retry.frequency)
       IN  IF ~retry_predicate(retry.op, exception) \/ stop_after_attempt(n, cfg.max_attempts)
           THEN retry' = [retry EXCEPT !.state = "raised", !.attempt = n,
                                       !.failure = exception, !.raised = exception.type]
           ELSE retry' = [retry EXCEPT !.attempt = n, !.failure = exception,
                                       !.waits = Append(@, wait_exponential(n, 1, 2, cfg.max_wait))]
    /\ UNCHANGED <<storeVars, obsVars, upstreamVars, runVars, nseCall>>

RetryCallStep == \E frequency \in Frequencies, op \in NseOps \cup BseOps : RetryCall(frequency, op)
AttemptRaisesStep == \E exception \in Failures : AttemptRaises(exception)

NextRetry == RetryCallStep \/ AttemptReturns \/ AttemptRaisesStep

SpecRetry == InitRetry /\ [][NextRetry]_vars

----------------------------------------------------------------------------
(* NSEClient.get_industry_info as a step: specification SpecNseInfo.        *)

\* what one getDetailedScripData query can end in
ScripOutcomes ==
    { ScripData("raise", 0, FALSE, <<EmptyStr, EmptyStr, EmptyStr, EmptyStr>>),
      ScripData("ok", 0, FALSE, <<EmptyStr, EmptyStr, EmptyStr, EmptyStr>>),
      ScripData("ok", 1, FALSE, <<EmptyStr, EmptyStr, EmptyStr, EmptyStr>>),
      ScripData("ok", 1, TRUE, <<EmptyStr, EmptyStr, EmptyStr, EmptyStr>>),
      ScripData("ok", 1, TRUE, <<EmptyStr, Str("Banks"), EmptyStr, EmptyStr>>),
      ScripData("ok", 1, TRUE, <<Str("Commodities"), Str("Metals & Mining"), Str("Ferrous Metals"), Str("Iron & Steel")>>) }

GetIndustryInfo(symbol, up) ==
    /\ nseCall' = [state |-> "returned", symbol |-> symbol, up |-> up,
                   queries |-> nse_queries(symbol, up),
                   result |-> nse_get_industry_info(symbol, up)]
    /\ UNCHANGED <<storeVars, obsVars, upstreamVars, runVars, retry>>

GetIndustryInfoStep ==
    \E symbol \in Symbols \cup RightsEntitlements, n \in ScripOutcomes, g \in ScripOutcomes :
        GetIndustryInfo(symbol, [N |-> n, G |-> g])

SpecNseInfo == InitRetry /\ [][GetIndustryInfoStep]_vars

----------------------------------------------------------------------------
(* The runs of the orchestrator as steps: specification Spec.               *)
(* A run is one process (main.py builds a new Orchestrator and calls        *)
(* full_refresh() or refresh()); it is observed before each list fetch,     *)
(* before each iteration of a per-symbol loop and before the final save.    *)

\* number of runs in a behaviour
MaxRuns == 2

\* lists that reach a checkpoint are followed over one run
RunLimit == IF Len(nseMainCsv.rows) >= CheckpointEvery - 1 THEN 1 ELSE MaxRuns

\* the run stops with an exception that nothing catches
Abort(exc, where) ==
    /\ pc' = "aborted"
    /\ raised' = exc
    /\ raisedAt' = where
    /\ UNCHANGED <<mode, pass, securities, idx, unsaved, passUnsaved, runs, prev, passStart>>

\* a _process_*_securities call returns (or is skipped on an empty list): the
\* next pass follows, or the final save
EndPass ==
    IF pass < Len(Passes(mode))
    THEN pc' = "list" /\ pass' = pass + 1
    ELSE pc' = "final_save" /\ pass' = pass

\* the end of one iteration of 'for i, item in enumerate(securities)'
IterationEnd ==
    /\ idx' = idx + 1
    /\ UNCHANGED securities
    /\ IF idx + 1 = Len(securities) THEN EndPass ELSE UNCHANGED <<pc, pass>>

StartRun(m) ==
    /\ pc \in {"idle", "done", "aborted", "killed", "killed_in_save"}
    /\ runs < RunLimit
    /\ mode' = m
    /\ pass' = 1
    /\ securities' = <<>>
    /\ idx' = 0
    /\ calls' = {}
    /\ unsaved' = 0
    /\ passUnsaved' = 0
    /\ runs' = runs + 1
    /\ prev' = [mode |-> mode, pc |-> pc, file |-> file]
    /\ passStart' = [file |-> file, data |-> EmptyDict]
    /\ UNCHANGED <<file, dir, lastOp, prevOp, upstreamVars, adapterVars>>

\* Orchestrator.__init__, then full_refresh() up to its first list fetch
StartFullRefresh ==
    /\ StartRun("full_refresh")
    /\ metadata' = DefaultMetadata
    /\ data' = EmptyDict
    /\ pc' = "list"
    /\ raised' = "none"
    /\ raisedAt' = "none"
    /\ log' = <<"clear">>

\* Orchestrator.__init__, then refresh() up to its first list fetch
StartRefresh ==
    LET r == load_result(file, DefaultMetadata, EmptyDict) IN
    /\ StartRun("refresh")
    /\ metadata' = r.metadata
    /\ data' = r.data
    /\ raised' = r.raised
    /\ log' = <<"load">>
    /\ IF r.raised = "none"
       THEN pc' = "list" /\ raisedAt' = "none"
       ELSE pc' = "aborted" /\ raisedAt' = "load"

\* the list fetch of a pass, the selection of its candidates and the entry into
\* its loop
FetchList ==
    /\ pc = "list"
    /\ LET p == Passes(mode)[pass]
           res == list_of_pass(p)
       IN  /\ log' = Append(log, p)
           /\ IF res.raised # "none"
              THEN Abort(res.raised, "list") /\ UNCHANGED calls
              ELSE IF res.isNone
              THEN \* iterating over None (len(None) in the BSE pass of full_refresh)
                   Abort("TypeError", "list") /\ UNCHANGED calls
              ELSE LET c == candidates(mode, p, res.items, data) IN
                   /\ passUnsaved' = 0
                   /\ passStart' = [file |-> file, data |-> data]
                   /\ securities' = c
                   /\ idx' = 0
                   /\ IF c = <<>> THEN EndPass ELSE pc' = "loop" /\ pass' = pass
                   /\ UNCHANGED <<mode, raised, raisedAt, calls, unsaved, runs, prev>>
    /\ UNCHANGED <<storeVars, lastOp, prevOp, upstreamVars, adapterVars>>

\* the loop body from 'if info:' to the checkpoint, once get_industry_info has
\* returned info
Fetched(adapter, symbol, info) ==
    LET d1 == loop_update(data, symbol, info)
        written == IF d1 # data THEN 1 ELSE 0
        sv == save_result(file, dir, metadata, d1)
    IN  /\ data' = d1
        /\ calls' = calls \cup {<<adapter, symbol>>}
        /\ IF checkpoint_due(idx + 1)
           THEN /\ file' = sv.file /\ dir' = sv.dir /\ unsaved' = 0 /\ passUnsaved' = 0
                /\ IF sv.raised = "none"
                   THEN IterationEnd /\ UNCHANGED <<raised, raisedAt>>
                   ELSE \* the exception leaves save(), the loop and the workflow
                        /\ pc' = "aborted" /\ raised' = sv.raised /\ raisedAt' = "save"
                        /\ UNCHANGED <<pass, securities, idx>>
           ELSE /\ UNCHANGED <<file, dir>>
                /\ unsaved' = unsaved + written
                /\ passUnsaved' = passUnsaved + written
                /\ IterationEnd
                /\ UNCHANGED <<raised, raisedAt>>
        /\ UNCHANGED <<metadata, mode, runs, prev, passStart, log>>

\* 'continue': the symbol is populated already
Skipped ==
    /\ IterationEnd
    /\ UNCHANGED <<storeVars, mode, raised, raisedAt, calls, unsaved, passUnsaved, runs, prev,
                   passStart, log>>

\* one iteration of the loop of Orchestrator._process_nse_securities
ProcessNse ==
    /\ pc = "loop"
    /\ Passes(mode)[pass] # "bse"
    /\ LET symbol == securities[idx + 1].symbol IN
       IF is_populated(data, symbol)
       THEN Skipped
       ELSE Fetched("nse", symbol, nse_get_industry_info(symbol, nseScrip[symbol]))
    /\ UNCHANGED <<lastOp, prevOp, upstreamVars, adapterVars>>

\* one iteration of the loop of Orchestrator._process_bse_securities
ProcessBse ==
    /\ pc = "loop"
    /\ Passes(mode)[pass] = "bse"
    /\ LET symbol == securities[idx + 1].symbol
           call == call_bse_get_industry_info(bseMeta[symbol])
       IN  IF is_populated(data, symbol)
           THEN Skipped
           ELSE IF call.raised # "none"
           THEN /\ Abort(call.raised, "loop")
                /\ calls' = calls \cup {<<"bse", symbol>>}
                /\ UNCHANGED <<storeVars, log>>
           ELSE Fetched("bse", symbol, call.result)
    /\ UNCHANGED <<lastOp, prevOp, upstreamVars, adapterVars>>

\* the last statement of full_refresh() and of refresh(): self.store.save()
FinalSave ==
    /\ pc = "final_save"
    /\ LET sv == save_result(file, dir, metadata, data) IN
       /\ file' = sv.file /\ dir' = sv.dir
       /\ IF sv.raised = "none"
          THEN pc' = "done" /\ UNCHANGED <<raised, raisedAt>>
          ELSE pc' = "aborted" /\ raised' = sv.raised /\ raisedAt' = "save"
    /\ unsaved' = 0
    /\ passUnsaved' = 0
    /\ log' = Append(log, "save")
    /\ UNCHANGED <<metadata, data, lastOp, prevOp, upstreamVars, adapterVars,
                   mode, pass, securities, idx, calls, runs, prev, passStart>>

\* the process is killed between two steps of a run (before a list fetch,
\* before an iteration, before the final save); what it held in memory is of
\* no use to a later run, which starts from the file
Kill ==
    /\ pc \in {"list", "loop", "final_save"}
    /\ pc' = "killed"
    /\ UNCHANGED <<storeVars, obsVars, upstreamVars, adapterVars,
                   mode, pass, securities, idx, raisedAt, calls, unsaved, passUnsaved, runs,
                   prev, passStart, log>>

\* get_industry_info as the loop of the pass p calls it
adapter_call(p, symbol) ==
    IF p = "bse"
    THEN call_bse_get_industry_info(bseMeta[symbol])
    ELSE [raised |-> "none", result |-> nse_get_industry_info(symbol, nseScrip[symbol])]

\* the process is killed inside an iteration of a loop, once get_industry_info
\* has returned: before 'if info:', or after it and before the checkpoint
KillInIteration ==
    /\ pc = "loop"
    /\ LET p == Passes(mode)[pass]
           symbol == securities[idx + 1].symbol
           call == adapter_call(p, symbol)
       IN  /\ ~is_populated(data, symbol)
           /\ call.raised = "none"
           /\ calls' = calls \cup {<<IF p = "bse" THEN "bse" ELSE "nse", symbol>>}
           /\ \E d1 \in {data, loop_update(data, symbol, call.result)} :
                 /\ data' = d1
                 /\ unsaved' = unsaved + (IF d1 # data THEN 1 ELSE 0)
                 /\ passUnsaved' = passUnsaved + (IF d1 # data THEN 1 ELSE 0)
    /\ pc' = "killed"
    /\ UNCHANGED <<metadata, file, dir, obsVars, upstreamVars, adapterVars,
                   mode, pass, securities, idx, raisedAt, runs, prev, passStart, log>>

\* the process is killed inside Store.save, between open(filepath, 'w') and the
\* end of json.dump, in the final save or in a checkpoint of the loop
KillInSave ==
    /\ dir \notin {"blocked", "not_a_directory"}
    /\ file.kind # "directory"
    /\ \/ /\ pc = "final_save"
          /\ log' = Append(log, "save")
          /\ UNCHANGED <<data, calls>>
       \/ /\ pc = "loop"
          /\ checkpoint_due(idx + 1)
          /\ LET p == Passes(mode)[pass]
                 symbol == securities[idx + 1].symbol
                 call == adapter_call(p, symbol)
             IN  /\ ~is_populated(data, symbol)
                 /\ call.raised = "none"
                 /\ data' = loop_update(data, symbol, call.result)
                 /\ calls' = calls \cup {<<IF p = "bse" THEN "bse" ELSE "nse", symbol>>}
          /\ UNCHANGED log
    /\ file' = TornFile
    /\ dir' = "exists"
    /\ pc' = "killed_in_save"
    /\ unsaved' = 0
    /\ passUnsaved' = 0
    /\ UNCHANGED <<metadata, obsVars, upstreamVars, adapterVars,
                   mode, pass, securities, idx, raisedAt, runs, prev, passStart>>

Next ==
    \/ StartFullRefresh \/ StartRefresh \/ FetchList \/ ProcessNse \/ ProcessBse \/ FinalSave
    \/ Kill \/ KillInIteration \/ KillInSave

(* Upstream and disk of the small world *)

NoFields == <<EmptyStr, EmptyStr, EmptyStr, EmptyStr>>
NseFields == <<Str("Commodities"), Str("Metals & Mining"), Str("Ferrous Metals"), Str("Iron & Steel")>>
NsePartialFields == <<EmptyStr, Str("Banks"), EmptyStr, EmptyStr>>
BseFields == <<Str("Energy"), Str("Oil Gas & Consumable Fuels"), Str("Petroleum Products"), Str("Refineries")>>

\* found with marketType "N"
HitN == [N |-> ScripData("ok", 1, TRUE, NseFields), G |-> ScripData("ok", 1, FALSE, NoFields)]
\* no secInfo with "N", a partly filled record with "G"
HitG == [N |-> ScripData("ok", 1, FALSE, NoFields), G |-> ScripData("ok", 1, TRUE, NsePartialFields)]
\* nothing populated with either market type
NotFound == [N |-> ScripData("ok", 1, TRUE, NoFields), G |-> ScripData("ok", 0, FALSE, NoFields)]
\* the query fails, finally
Failing == [N |-> ScripData("raise", 0, FALSE, NoFields), G |-> ScripData("raise", 0, FALSE, NoFields)]
NseScripChoices == {HitN, HitG, NotFound, Failing}

BseHit == MetaInfo("ok", TRUE, BseFields)
BseEmpty == MetaInfo("ok", TRUE, NoFields)
BseMetaChoices == {BseHit, BseEmpty}

Prefix(m) == [j \in 1..m |-> j]
\* the first m symbols, and the same with the first symbol listed once more
MainRows == {Prefix(m) : m \in 0..MaxSym} \cup {Prefix(m) \o <<1>> : m \in 1..(MaxSym - 1)}
OneRow == {<<>>} \cup {<<s>> : s \in Symbols}

RowSymbols(rows) == {rows[j] : j \in DOMAIN rows}

\* a store left by an earlier run: one empty value, one record of placeholders
OldFile == json_dump(DefaultMetadata, dict_set(dict_set(EmptyDict, 1, <<>>), MaxSym, <<Dash, Dash, Dash, Dash>>))

\* what a run may find on disk: nothing, a store of an earlier run, a file that
\* is no JSON object, a file with other metadata and records of other lengths
InitialFiles ==
    { NoFile, OldFile,
      Doc("scalar", <<>>, {}, <<>>, <<>>),
      Doc("object", <<>>, {"metadata", "data"}, <<Str("Group")>>, <<<<1, <<>>>>, <<2, InfoOfLen(3)>>>>) }

Init ==
    /\ metadata = DefaultMetadata
    /\ data = EmptyDict
    /\ \E disk \in {<<NoFile, "blocked">>, <<NoFile, "not_a_directory">>}
                        \cup {<<f, "exists">> : f \in InitialFiles} :
            file = disk[1] /\ dir = disk[2]
    /\ raised = "none"
    /\ lastOp = OpRecord("init", 0, <<>>, TRUE)
    /\ prevOp = [op |-> "init", ok |-> TRUE]
    /\ nseMainCsv \in {Csv("ok", r) : r \in MainRows}
                      \cup {Csv(o, <<>>) : o \in {"error", "http_error", "empty_body"}}
    /\ nseSmeCsv \in {Csv("ok", r) : r \in OneRow}
                     \cup {Csv(o, <<>>) : o \in {"error", "http_error", "empty_body"}}
    /\ bseListing \in {Csv("ok", r) : r \in OneRow} \cup {Csv("error", <<>>)}
    /\ nseScrip \in [Symbols -> NseScripChoices]
    /\ \A s \in Symbols \ (RowSymbols(nseMainCsv.rows) \cup RowSymbols(nseSmeCsv.rows)) :
            nseScrip[s] = NotFound
    /\ bseMeta \in [Symbols -> BseMetaChoices]
    /\ \A s \in Symbols \ RowSymbols(bseListing.rows) : bseMeta[s] = BseEmpty
    /\ NoRun
    /\ NoAdapterCall

Spec == Init /\ [][Next]_vars


(* Long lists: specification SpecBatch runs the same steps over lists that  *)
(* span several checkpoints.                                                *)

\* length of the longest list
BatchMax == 120

Range(a, b) == [j \in 1..(b - a + 1) |-> a + j - 1]
BatchSymbols == 1..(BatchMax + CheckpointEvery)

\* a store left by an earlier run, with a symbol that is listed no longer
BatchOldFile == json_dump(DefaultMetadata, dict_set(EmptyDict, 0, OtherInfo))

InitBatch ==
    /\ metadata = DefaultMetadata
    /\ data = EmptyDict
    /\ \E disk \in {<<NoFile, "blocked">>, <<NoFile, "not_a_directory">>, <<NoFile, "exists">>,
                      <<BatchOldFile, "exists">>} :
            file = disk[1] /\ dir = disk[2]
    /\ raised = "none"
    /\ lastOp = OpRecord("init", 0, <<>>, TRUE)
    /\ prevOp = [op |-> "init", ok |-> TRUE]
    /\ nseMainCsv \in
          { Csv("ok", Range(1, CheckpointEvery - 1)),
            Csv("ok", Range(1, BatchMax)),
            \* the first symbol is listed again, as the 50th row
            Csv("ok", Range(1, CheckpointEvery - 1) \o <<1>>
                      \o Range(CheckpointEvery, 2 * CheckpointEvery - 2)) }
    /\ nseSmeCsv \in {Csv("ok", <<>>),
                      Csv("ok", Range(BatchMax + 1, BatchMax + CheckpointEvery))}
    /\ bseListing \in {Csv("ok", <<>>), Csv("ok", <<1>>)}
    /\ nseScrip \in { [s \in BatchSymbols |-> HitN],
                      [s \in BatchSymbols |-> IF s % 2 = 0 THEN Failing ELSE HitN] }
    /\ bseMeta = [s \in BatchSymbols |-> BseHit]
    /\ NoRun
    /\ NoAdapterCall

SpecBatch == InitBatch /\ [][Next]_vars

----------------------------------------------------------------------------
(* Properties of the store, checked under SpecStore *)

AllValuesHaveFourFields(d) == \A i \in DOMAIN d : Len(d[i][2]) = 4
FileValuesHaveFourFields(f) == \A i \in DOMAIN f.data : Len(f.data[i][2]) = 4
WellStructured(f) == f.kind = "object" /\ {"metadata", "data"} \subseteq f.keys

\* C6 (as claimed): in every reachable state of the store, also after load()
\* of a file whose "data" values have a length other than 4, every value in
\* data has exactly 4 elements.
C6_EveryValueHasFourFields == AllValuesHaveFourFields(data)

\* C6 (amended): only update_stock checks the length. No operation puts a
\* value of another length into data or into the file as long as the file
\* on disk holds none: if every value of data and of the file has 4 elements
\* before an operation, so it is after it.
C6_FourFieldsPreserved ==
    [][ (AllValuesHaveFourFields(data) /\ FileValuesHaveFourFields(file))
        => (AllValuesHaveFourFields(data') /\ FileValuesHaveFourFields(file')) ]_vars

\* update_stock has rejected a record of the wrong length, after a file of
\* 4-element values was loaded
C6_Witness ==
    /\ lastOp.op = "update_stock" /\ Len(lastOp.info) # 4
    /\ prevOp.op = "load"
    /\ data # EmptyDict /\ AllValuesHaveFourFields(data)
    /\ WellStructured(file) /\ FileValuesHaveFourFields(file)

\* C7: update_stock(symbol, info) never raises; with len(info) # 4 the whole
\* store is unchanged; with len(info) = 4 the entry of symbol becomes info
\* and no other key changes.
C7_UpdateStock ==
    [][ lastOp'.op = "update_stock" =>
          LET symbol == lastOp'.symbol
              info == lastOp'.info
          IN  /\ raised' = "none"
              /\ metadata' = metadata
              /\ Len(info) # 4 => data' = data
              /\ Len(info) = 4 =>
                    /\ symbol \in dict_keys(data') /\ dict_get(data', symbol) = info
                    /\ \A k \in Symbols \ {symbol} :
                          /\ k \in dict_keys(data') <=> k \in dict_keys(data)
                          /\ k \in dict_keys(data) => dict_get(data', k) = dict_get(data, k) ]_vars

\* a record of the wrong length was offered for a symbol that has an entry,
\* and a 4-element record has overwritten an entry before
C7_Witness ==
    /\ lastOp.op = "update_stock" /\ Len(lastOp.info) # 4
    /\ lastOp.symbol \in dict_keys(data)
    /\ prevOp.op = "update_stock"
    /\ Len(dict_get(data, lastOp.symbol)) = 4

\* C8: for every store state, save() followed by load() on the same path
\* yields a data mapping equal to the data before the save: the same keys and
\* for each key the same record, field by field.
C8_SaveThenLoad ==
    [][ (lastOp.op = "save" /\ lastOp'.op = "load") =>
          /\ dict_keys(data') = dict_keys(data)
          /\ \A k \in dict_keys(data) : dict_get(data', k) = dict_get(data, k) ]_vars

\* C9: load() never raises; on a missing file and on every malformed content
\* (unparseable, or parseable but not an object with "metadata" and "data")
\* it returns with empty data.
C9_LoadNeverRaises ==
    lastOp.op = "load" =>
        /\ raised = "none"
        /\ ~WellStructured(file) => data = EmptyDict

\* the containing directory is not there and save() cannot create it: it is
\* absent and os.makedirs fails, or its path is taken by a file
CannotCreateDirectory(dr) == dr \in {"blocked", "not_a_directory"}

\* C10: when save() cannot create the containing directory it returns
\* without raising, metadata and data are unchanged and nothing on disk is
\* created or changed.
C10_FailedMkdirLeavesAllUnchanged ==
    [][ (lastOp'.op = "save" /\ CannotCreateDirectory(dir)) =>
          /\ raised' = "none"
          /\ ~lastOp'.ok
          /\ metadata' = metadata /\ data' = data
          /\ file' = file /\ dir' = dir ]_vars

----------------------------------------------------------------------------
(* Properties of the runs, checked under Spec and SpecBatch *)

\* the symbols with a non-empty record in a persisted store
PopulatedIn(f) ==
    IF WellStructured(f)
    THEN {f.data[j][1] : j \in {x \in DOMAIN f.data : Len(f.data[x][2]) > 0}}
    ELSE {}

NseListed == RowSymbols(nseMainCsv.rows) \cup RowSymbols(nseSmeCsv.rows)

\* C1: two refresh() runs in succession against a fixed upstream: the second
\* leaves the persisted store as the first left it, and calls no adapter for a
\* symbol that had a non-empty record after the first.
C1_RefreshIdempotent ==
    (mode = "refresh" /\ prev.mode = "refresh" /\ prev.pc = "done") =>
        /\ \A c \in calls : c[2] \notin PopulatedIn(prev.file)
        /\ pc = "done" => file = prev.file

\* the second refresh has completed; it skipped a listed symbol the first had
\* populated and fetched again one the first had missed
C1_Witness ==
    /\ mode = "refresh" /\ pc = "done"
    /\ prev.mode = "refresh" /\ prev.pc = "done"
    /\ PopulatedIn(prev.file) \cap NseListed # {}
    /\ calls # {}
    /\ file = prev.file /\ file # NoFile

\* the BSE adapter returns a populated record for the symbol
BsePopulated(s) == truthy(bse_get_industry_info(bseMeta[s]))

\* C2: at the end of a full_refresh() run, a symbol of the BSE list that is
\* also in an NSE list and for which the BSE adapter returns a populated
\* record holds that BSE record, and no NSE call was made for it.
C2_FirstWriterWins ==
    (mode = "full_refresh" /\ pc \in {"done", "aborted"}) =>
        \A s \in RowSymbols(bseListing.rows) \cap NseListed :
            BsePopulated(s) =>
                /\ is_populated(data, s)
                /\ dict_get(data, s) = bse_get_industry_info(bseMeta[s]).info
                /\ <<"nse", s>> \notin calls

\* C3 (as claimed): at every point of a run, over all its passes and for any
\* candidate lists, at most 49 store updates were made since the last save().
C3_AtMost49Unsaved == unsaved <= CheckpointEvery - 1

NoRepeats(lst) == \A a, b \in DOMAIN lst : lst[a].symbol = lst[b].symbol => a = b

\* C3 (amended): within one pass whose candidate list has no repeated symbol,
\* the store updates made since the pass's last save() call or, before its
\* first, since the start of the pass are at most 49 between two iterations
\* of the loop and at most 50 at any point: the 50th is made inside the
\* iteration that checkpoints, before its save() call, and a process killed
\* there holds 50.
C3_AtMost49UnsavedInPass ==
    NoRepeats(securities) =>
        /\ passUnsaved <= CheckpointEvery
        /\ pc # "killed" => passUnsaved <= CheckpointEvery - 1

\* the process was killed in the 100th iteration of a pass, between
\* update_stock and the checkpoint: 50 updates were made since the checkpoint
\* of the 50th iteration wrote the file
C3_Witness ==
    /\ pc = "killed" /\ NoRepeats(securities)
    /\ idx = 2 * CheckpointEvery - 1
    /\ passUnsaved = CheckpointEvery
    /\ WellStructured(file) /\ Len(file.data) >= CheckpointEvery

\* C4: a failure while fetching the classification of one symbol, in an NSE
\* or a BSE pass, never aborts the run.
C4_FetchFailureNeverAborts == ~(pc = "aborted" /\ raisedAt = "loop")

\* the passes of the current run whose list fetch has been made
FetchedPasses ==
    IF mode = "none" THEN {}
    ELSE {q \in 1..3 :
            \/ q < pass
            \/ q = pass /\ pc \in {"loop", "final_save", "done"}
            \/ q = pass /\ pc = "aborted" /\ raisedAt # "load"}

PassOutcome(q) ==
    LET p == Passes(mode)[q] IN
    CASE p = "bse"      -> bseListing.outcome
      [] p = "nse_main" -> nseMainCsv.outcome
      [] OTHER          -> nseSmeCsv.outcome

\* the passes of the current run whose list fetch ended in a failure
FailedPasses == {q \in FetchedPasses : PassOutcome(q) \in {"error", "http_error"}}

\* C5 (as claimed): once a list fetch has ended in a terminal failure the run
\* is aborted: no later pass runs and the final save is not made.
C5_ListFailureAbortsRun ==
    (\E q \in FetchedPasses : PassOutcome(q) = "error") => pc = "aborted"

\* C5 (amended): a list fetch that ends in a failure is turned into an empty
\* list by the adapter: the run is not aborted at that fetch, the pass has no
\* candidate, and a run that reaches its end has made the final save.
C5_ListFailureIsSwallowed ==
    \A q \in FailedPasses :
        /\ ~(pc = "aborted" /\ raisedAt = "list" /\ pass = q)
        /\ (pc = "loop" => pass # q)
        /\ (pc = "done" /\ dir # "blocked") => file = json_dump(metadata, data)

\* the first list fetch of a refresh failed, a later pass fetched a symbol and
\* the final save has rewritten the file
C5_Witness ==
    /\ pc = "done" /\ 1 \in FailedPasses
    /\ PassOutcome(1) = "error"
    /\ calls # {}
    /\ prev.file = OldFile /\ file # OldFile /\ file = json_dump(metadata, data)

----------------------------------------------------------------------------
(* Properties of the per-symbol loop and of the order of the passes,        *)
(* checked under Spec *)

\* a symbol is pending: absent from the store, or stored with an empty value
Pending(d, s) == s \notin dict_keys(d) \/ dict_get(d, s) = <<>>

\* the pass the run is in: the last list fetch of the log
CurrentPass == log[Len(log)]
AdapterOf(p) == IF p = "bse" THEN "bse" ELSE "nse"

\* the symbols of the list of a pass, as upstream lists them
RowsOf(p) ==
    CASE p = "bse"      -> bseListing.rows
      [] p = "nse_main" -> nseMainCsv.rows
      [] OTHER          -> nseSmeCsv.rows

SymbolsOf(lst) == [j \in DOMAIN lst |-> lst[j].symbol]

\* the adapter of the pass p yields no populated record for s
Miss(p, s) ==
    LET call == adapter_call(p, s) IN call.raised = "none" /\ ~truthy(call.result)

\* the calls of the current run that yielded no populated record
MissedCalls == {c \in calls : Miss(IF c[1] = "bse" THEN "bse" ELSE "nse_main", c[2])}

\* a run that has ended leaves no record on disk for a symbol it has missed,
\* and a refresh() that follows a completed run fetches again every listed
\* symbol the adapter misses and the file of that run does not populate
C13_PendingAgain ==
    /\ pc = "done" => \A c \in MissedCalls : c[2] \notin PopulatedIn(file)
    /\ (mode = "refresh" /\ pc = "done" /\ prev.pc = "done") =>
          \A s \in NseListed :
              (Miss("nse_main", s) /\ s \notin PopulatedIn(prev.file)) => <<"nse", s>> \in calls

\* C13: when the loop has called the adapter for a symbol and the adapter
\* yields no populated record (None, after a miss or a swallowed failure), the
\* store is as it was: no placeholder is written, an absent symbol stays
\* absent; nothing is persisted for it and the next run fetches it again.
C13_MissWritesNothing ==
    [][ /\ (pc = "loop" /\ pc' \notin {"killed", "aborted"}
            /\ Pending(data, securities[idx + 1].symbol)
            /\ Miss(CurrentPass, securities[idx + 1].symbol)) => data' = data
        /\ C13_PendingAgain' ]_vars

\* a second refresh() has fetched again a symbol the source does not know, and
\* has left it absent, next to a populated one
C13_Witness ==
    /\ mode = "refresh" /\ pc = "done" /\ prev.mode = "refresh" /\ prev.pc = "done"
    /\ WellStructured(file) /\ file = prev.file
    /\ \E c \in MissedCalls : c[2] \notin dict_keys(data)
    /\ \E s \in NseListed : is_populated(data, s)

\* C14: when the loop reaches a candidate it calls the adapter for it if and
\* only if the symbol is absent from the store or stored with an empty value;
\* a symbol with a non-empty record, also one of four "-", is skipped without
\* a call; and the candidates a pass selects from its list are the pending
\* symbols of the list.
C14_FetchedIffPending ==
    [][ /\ (pc = "loop" /\ pc' # "killed") =>
              LET s == securities[idx + 1].symbol IN
              IF Pending(data, s)
              THEN <<AdapterOf(CurrentPass), s>> \in calls'
              ELSE calls' = calls /\ data' = data /\ idx' = idx + 1
        /\ (pc = "list" /\ pc' \notin {"killed", "aborted"}) =>
              SymbolsOf(securities') =
                  SelectSeq(RowsOf(log'[Len(log')]), LAMBDA s : Pending(data, s)) ]_vars

\* a refresh() over a store with an empty value and a record of four "-" has
\* fetched the first symbol and made no call for the second
C14_Witness ==
    /\ mode = "refresh" /\ pc = "done" /\ prev.file = OldFile
    /\ {1, MaxSym} \subseteq RowSymbols(nseMainCsv.rows)
    /\ <<"nse", 1>> \in calls
    /\ \A c \in calls : c[2] # MaxSym
    /\ dict_get(data, MaxSym) = <<Dash, Dash, Dash, Dash>>

\* every list fetch succeeds and no per-symbol query fails
UpstreamAvailable ==
    /\ nseMainCsv.outcome = "ok" /\ nseSmeCsv.outcome = "ok" /\ bseListing.outcome = "ok"
    /\ \A s \in NseListed : nseScrip[s].N.kind = "ok" /\ nseScrip[s].G.kind = "ok"
    /\ \A s \in RowSymbols(bseListing.rows) : bseMeta[s].kind = "ok"

\* the record of a symbol in a persisted store
RecordIn(f, s) == dict_get(dict_of(f.data), s)

\* C15: a refresh() that follows a killed run, with upstream available, is
\* not aborted; when it is done the file holds a non-empty record for every
\* listed symbol for which the adapter of its list returns a populated
\* record, and the symbols populated in the file the killed run left keep
\* their records.
C15_RefreshAfterKillRecovers ==
    (/\ mode = "refresh" /\ prev.pc \in {"killed", "killed_in_save"}
     /\ UpstreamAvailable
     /\ prev.file.kind \in {"missing", "invalid", "object"}
     /\ dir = "exists") =>
        /\ pc # "aborted"
        /\ pc = "done" =>
              /\ \A s \in NseListed : ~Miss("nse_main", s) => s \in PopulatedIn(file)
              /\ \A s \in RowSymbols(bseListing.rows) : BsePopulated(s) => s \in PopulatedIn(file)
              /\ \A s \in PopulatedIn(prev.file) :
                    s \in PopulatedIn(file) /\ RecordIn(file, s) = RecordIn(prev.file, s)

\* the steps of full_refresh() and of refresh(), in order
ExpectedOrder ==
    IF mode = "full_refresh" THEN <<"clear", "bse", "nse_main", "nse_sme", "save">>
    ELSE <<"load", "nse_main", "nse_sme", "bse", "save">>

IsPrefix(a, b) == Len(a) <= Len(b) /\ a = SubSeq(b, 1, Len(a))

\* the steps made so far are the first steps of the workflow's order, and a
\* run that is done has made them all
C18_OrderSoFar ==
    mode # "none" => (IsPrefix(log, ExpectedOrder) /\ (pc = "done" => log = ExpectedOrder))

\* C18: full_refresh() makes clear, the BSE pass, the NSE mainboard pass, the
\* NSE SME pass and the final save in this order; refresh() makes load, the
\* NSE mainboard pass, the NSE SME pass, the BSE pass and the final save in
\* this order; and the candidates of each pass are the symbols of its list
\* that are pending in the store as the steps before it left it.
C18_FixedOrderOfPasses ==
    [][ /\ C18_OrderSoFar'
        /\ (pc = "list" /\ pc' \notin {"killed", "aborted"}) =>
              /\ data' = data
              /\ SymbolsOf(securities') =
                    SelectSeq(RowsOf(ExpectedOrder[Len(log) + 1]), LAMBDA s : Pending(data, s)) ]_vars

\* a refresh() is done: its NSE passes have populated the symbol the BSE list
\* holds, and the BSE pass, the last, had no candidate left
C18_Witness ==
    /\ mode = "refresh" /\ pc = "done"
    /\ log = <<"load", "nse_main", "nse_sme", "bse", "save">>
    /\ bseListing.rows # <<>>
    /\ \A s \in RowSymbols(bseListing.rows) : <<"nse", s>> \in calls /\ is_populated(data, s)
    /\ securities = <<>>

----------------------------------------------------------------------------
(* The checkpoint a crash leaves, checked under SpecBatch *)

\* the candidates of the current pass the loop has gone through when the last
\* checkpoint of the pass was due
LastCheckpoint == CheckpointEvery * (idx \div CheckpointEvery)

\* the symbols among the first n candidates of the current pass for which the
\* adapter returns a populated record
UpdatedAmongFirst(n) ==
    {securities[j].symbol : j \in {x \in 1..n : ~Miss(CurrentPass, securities[x].symbol)}}

\* the mapping of a dict: its values by key, the order of the members aside
Mapping(d) == [k \in dict_keys(d) |-> dict_get(d, k)]

\* a mapping with the updates of the first n candidates of the current pass
WithUpdatesOfFirst(base, n) ==
    LET hs == UpdatedAmongFirst(n) IN
    [s \in (DOMAIN base) \cup hs |->
        IF s \in hs THEN adapter_call(CurrentPass, s).result.info ELSE base[s]]

\* the mapping a persisted store holds
PersistedData(f) == Mapping(IF WellStructured(f) THEN dict_of(f.data) ELSE EmptyDict)

\* the run was killed right after a candidate of a pass of distinct
\* candidates was processed
CrashedAfterCandidate == pc = "killed" /\ idx >= 1 /\ NoRepeats(securities)

\* C17 (as claimed): a crash right after candidate k of a pass leaves the
\* persisted store holding exactly what was persisted before the pass and the
\* updates of the first 50 * floor(k / 50) candidates of the pass.
C17_CrashLeavesFirstMultipleOf50 ==
    CrashedAfterCandidate =>
        PersistedData(file) = WithUpdatesOfFirst(PersistedData(passStart.file), LastCheckpoint)

\* C17 (amended): a crash right after candidate k of a pass of distinct
\* candidates leaves the file as it was before the pass when k < 50 or the
\* directory cannot be created, and else the in-memory store as it stood
\* after the first 50 * floor(k / 50) candidates: what the store held when
\* the pass began and the updates of those candidates.
C17_CrashLeavesLastCheckpoint ==
    CrashedAfterCandidate =>
        IF LastCheckpoint = 0 \/ dir = "blocked"
        THEN file = passStart.file
        ELSE /\ WellStructured(file)
             /\ file.metadata = metadata
             /\ PersistedData(file) = WithUpdatesOfFirst(Mapping(passStart.data), LastCheckpoint)

\* a pass of 120 candidates was killed after the 105th: the file holds the
\* first 100 and none of the five after them
C17_Witness ==
    /\ CrashedAfterCandidate /\ Len(securities) = BatchMax
    /\ idx = 2 * CheckpointEvery + 5
    /\ DOMAIN PersistedData(file) = {securities[j].symbol : j \in 1..(2 * CheckpointEvery)}
    /\ \A j \in 1..idx : is_populated(data, securities[j].symbol)

----------------------------------------------------------------------------
(* Properties of the retry layer, checked under SpecRetry *)

AllowListed == {429, 503, 408, 502, 504}

\* the attempts the profile of the call in flight allows
ProfileAttempts ==
    CASE retry.frequency = "daily"   -> 5
      [] retry.frequency = "monthly" -> 30
      [] OTHER                       -> 15

\* the longest wait the profile of the call in flight allows
ProfileMaxWait ==
    CASE retry.frequency = "daily"   -> 30
      [] retry.frequency = "monthly" -> 180
      [] OTHER                       -> 90

\* C11: in each of the four retry-wrapped operations, after a failed attempt
\* that leaves attempts to spare, a timeout is retried, a connectivity failure
\* is retried if and only if its status is one of 429, 503, 408, 502, 504, and
\* any other connectivity failure is re-raised at once, with no wait and no
\* further attempt.
C11_RetryOnlyAllowListed ==
    (retry.failure.type # "none" /\ retry.attempt < ProfileAttempts) =>
        /\ retry.failure.type = "TimeoutError" => retry.state = "trying"
        /\ retry.failure.type = "ConnectionError" =>
              (retry.state = "trying" <=> retry.failure.status \in AllowListed)
        /\ (retry.failure.type = "ConnectionError" /\ retry.failure.status \notin AllowListed) =>
              /\ retry.state = "raised"
              /\ Len(retry.waits) = retry.attempt - 1

\* C12: a retry-wrapped call never makes more than maxAttempts attempts (5, 15,
\* 30 for daily, weekly, monthly; 15 for an unknown frequency); after a
\* retryable failure of attempt maxAttempts it does not go on; and a call
\* re-raised on a retryable failure has made exactly maxAttempts attempts and
\* raises that failure.
C12_ExactlyMaxAttempts ==
    /\ retry.attempt <= ProfileAttempts
    /\ retry.state = "trying" => retry.attempt < ProfileAttempts
    /\ (retry.state = "raised" /\ retry_predicate(retry.op, retry.failure)) =>
          /\ retry.attempt = ProfileAttempts
          /\ Len(retry.waits) = ProfileAttempts - 1
          /\ retry.raised = retry.failure.type

\* a monthly call has used up its 30 attempts on status 503 and re-raised
C12_Witness ==
    /\ retry.state = "raised" /\ retry.frequency = "monthly"
    /\ retry.op = "_fetch_detailed_scrip_data_with_retry"
    /\ retry.failure = ConnectionFailure(503)
    /\ retry.attempt = 30 /\ retry.raised = "ConnectionError"

\* C16: the wait after failed attempt n is max(2, min(maxWait, 2^(n-1))): at
\* least 2, at most maxWait, and not less than the wait before it.
C16_BackoffWait ==
    \A n \in DOMAIN retry.waits :
        /\ retry.waits[n] = Max2(2, Min2(ProfileMaxWait, 2^(n - 1)))
        /\ retry.waits[n] >= 2
        /\ retry.waits[n] <= ProfileMaxWait
        /\ n > 1 => retry.waits[n - 1] <= retry.waits[n]

\* 29 waits of a monthly call: the floor at the first, the doubling, the cap
C16_Witness ==
    /\ retry.frequency = "monthly" /\ Len(retry.waits) = 29
    /\ retry.waits[1] = 2 /\ retry.waits[2] = 2 /\ retry.waits[3] = 4
    /\ retry.waits[8] = 128 /\ retry.waits[9] = 180 /\ retry.waits[29] = 180

----------------------------------------------------------------------------
(* Properties of NSEClient.get_industry_info, checked under SpecNseInfo *)

\* the query returned a result with at least one of the 4 fields non-empty
PopulatedResult(v) ==
    v.kind = "ok" /\ v.equity > 0 /\ v.secInfo /\ \E j \in 1..4 : v.fields[j] # EmptyStr

RecordOf(v) == [j \in 1..4 |-> IF v.fields[j] = EmptyStr THEN Dash ELSE v.fields[j]]

\* C19: get_industry_info queries marketType "N", then "G"; it returns the
\* record of the first query whose result has a non-empty field and makes no
\* later query; it returns None when both results are unpopulated; a symbol
\* ending in '-RE' is never queried and yields None.
C19_VariantsInOrder ==
    nseCall.state = "returned" =>
        LET n == nseCall.up.N
            g == nseCall.up.G
        IN  IF nseCall.symbol \in RightsEntitlements
            THEN nseCall.queries = <<>> /\ ~nseCall.result.found
            ELSE /\ nseCall.queries \in {<<"N">>, <<"N", "G">>}
                 /\ PopulatedResult(n) =>
                       nseCall.queries = <<"N">> /\ nseCall.result = Some(RecordOf(n))
                 /\ (n.kind = "ok" /\ ~PopulatedResult(n)) =>
                       /\ nseCall.queries = <<"N", "G">>
                       /\ PopulatedResult(g) => nseCall.result = Some(RecordOf(g))
                       /\ ~PopulatedResult(g) => ~nseCall.result.found
                 /\ n.kind = "raise" => ~nseCall.result.found

\* "N" returned no secInfo and "G" a partly filled record, which is returned
\* with "-" in the empty fields
C19_Witness ==
    /\ nseCall.state = "returned" /\ nseCall.symbol \in Symbols
    /\ nseCall.up.N.kind = "ok" /\ ~nseCall.up.N.secInfo
    /\ nseCall.queries = <<"N", "G">>
    /\ nseCall.result = Some(<<Dash, Str("Banks"), Dash, Dash>>)

----------------------------------------------------------------------------
(* C20, checked under SpecStore *)

\* C20 (as claimed): metadata is [Macro, Sector, Industry, Basic Industry] in
\* every reachable state, whatever file load() has read.
C20_MetadataFixed == metadata = DefaultMetadata

\* the "metadata" member of the file, when load() would take it
FileMetadataIsDefault(f) == WellStructured(f) => f.metadata = DefaultMetadata

\* C20 (amended): load() takes metadata from a file that has both members; no
\* operation changes metadata as long as the file on disk carries the fixed
\* list: if metadata and the file's "metadata" are the fixed list before an
\* operation, they are after it.
C20_MetadataPreserved ==
    [][ (metadata = DefaultMetadata /\ FileMetadataIsDefault(file))
        => (metadata' = DefaultMetadata /\ FileMetadataIsDefault(file')) ]_vars

\* a file written by save() was loaded back after the store had been changed
C20_Witness ==
    /\ lastOp.op = "load" /\ lastOp.ok /\ prevOp.op \in {"clear", "update_stock"}
    /\ WellStructured(file) /\ file.metadata = DefaultMetadata /\ file.data # <<>>
    /\ metadata = DefaultMetadata /\ data # EmptyDict

----------------------------------------------------------------------------
(* C21, checked under Spec *)

\* the adapter of the pass p returns a populated record for s
Hit(p, s) ==
    LET call == adapter_call(p, s) IN call.raised = "none" /\ truthy(call.result)

\* the 4 fields the source returned for s in the answer the adapter of the
\* pass p builds its record from ("" stands for a field the source left empty)
SourceFields(p, s) ==
    IF p = "bse" THEN bseMeta[s].fields
    ELSE IF PopulatedResult(nseScrip[s].N) THEN nseScrip[s].N.fields
    ELSE nseScrip[s].G.fields

\* rec has exactly 4 fields, none empty: "-" where the source left the field
\* empty, the source's value elsewhere, and at least one value of the source
RecordFromSource(rec, fields) ==
    /\ Len(rec) = 4
    /\ \A j \in 1..4 :
          /\ rec[j] # EmptyStr
          /\ fields[j] = EmptyStr => rec[j] = Dash
          /\ fields[j] # EmptyStr => rec[j] = fields[j]
    /\ \E j \in 1..4 : fields[j] # EmptyStr /\ rec[j] = fields[j]

\* the symbols whose value a step has set or replaced
WrittenByStep == {s \in dict_keys(data') : s \notin dict_keys(data) \/ dict_get(data', s) # dict_get(data, s)}

\* every populated record an adapter hands to the loop, for the upstream a run
\* starts with, is built from the source's answer
C21_AdapterRecords ==
    \A s \in Symbols :
        /\ truthy(nse_get_industry_info(s, nseScrip[s])) =>
              RecordFromSource(nse_get_industry_info(s, nseScrip[s]).info,
                               SourceFields("nse_main", s))
        /\ truthy(bse_get_industry_info(bseMeta[s])) =>
              RecordFromSource(bse_get_industry_info(bseMeta[s]).info, SourceFields("bse", s))

\* C21: every record a step of a pass writes into the store has exactly 4
\* non-empty fields, "-" in each field the source left empty, the source's
\* value in the others and at least one value of the source; the symbol
\* written is the candidate the step has fetched, with a hit; no pass writes
\* an empty value, and no later step of the same run changes or removes the
\* value of a populated symbol, so a symbol written by a pass is not pending
\* again in that run.
C21_WrittenRecordsAreWellFormed ==
    [][ /\ pc = "loop" =>
              \A s \in WrittenByStep :
                  /\ s = securities[idx + 1].symbol
                  /\ Hit(CurrentPass, s)
                  /\ RecordFromSource(dict_get(data', s), SourceFields(CurrentPass, s))
                  /\ ~Pending(data', s)
        /\ runs' = runs =>
              \A s \in dict_keys(data) :
                  ~Pending(data, s) => s \in dict_keys(data') /\ dict_get(data', s) = dict_get(data, s)
        /\ runs' # runs => C21_AdapterRecords ]_vars

\* a refresh() has completed: an NSE pass has written a record with "-" in
\* three fields, and the BSE pass, which lists the symbol too, has left it
C21_Witness ==
    /\ mode = "refresh" /\ pc = "done"
    /\ \E s \in RowSymbols(bseListing.rows) :
          /\ <<"nse", s>> \in calls
          /\ nseScrip[s] = HitG
          /\ s \in dict_keys(data) /\ dict_get(data, s) = <<Dash, Str("Banks"), Dash, Dash>>
          /\ bseMeta[s] = BseHit

====
